---------------------------- MODULE Spec2Model ----------------------------
(***************************************************************************)
(* A model of breakhis_gradcam/utils.py: the mixup epoch trainer, the      *)
(* validator with test-time augmentation, the learning-rate groups, the    *)
(* checkpoint writer and the logging handlers.                             *)
(*                                                                         *)
(* Real numbers are exact rationals <<n, d>> in lowest terms with d > 0;   *)
(* <<0, 0>> is NaN, the value of 0/0 (the mean of an empty tensor).        *)
(* A tensor of shape [bs, c, h, w] is modelled with c = h = w = 1, as a    *)
(* sequence of bs reals.                                                   *)
(***************************************************************************)
EXTENDS Integers, Sequences, FiniteSets, TLC

(***************************************************************************)
(* Bounds of the model.                                                    *)
(***************************************************************************)
\* samples of the largest dataset
MaxSamples == 3
\* largest batch size of a dataloader
MaxBatchSize == 2
\* the beta draws are the multiples of 1/BetaGrid in [0, 1]
BetaGrid == 2
\* largest number of augmented views of a sample
MaxAug == 3
\* largest number of named parameters of a model
MaxParams == 3
\* epochs of checkpoint_state are the multiples of 5 up to 5 * MaxEpochIdx
MaxEpochIdx == 1
\* largest number of calls of setup_logging_streams
MaxSetups == 3

(***************************************************************************)
(* Rational arithmetic.                                                    *)
(***************************************************************************)
Abs(n) == IF n < 0 THEN -n ELSE n

RECURSIVE Gcd(_, _)
Gcd(a, b) == IF b = 0 THEN a ELSE Gcd(b, a % b)

NaN == <<0, 0>>

IsNaN(r) == r[2] = 0

\* the real n / d; 0/0 and every x/0 this module forms is NaN
Rat(n, d) ==
    IF d = 0 THEN NaN
    ELSE LET g == Gcd(Abs(n), Abs(d))
             s == IF d < 0 THEN -1 ELSE 1
         IN  <<(s * n) \div g, (s * d) \div g>>

Num(n) == <<n, 1>>

RAdd(p, q) == IF IsNaN(p) \/ IsNaN(q) THEN NaN
              ELSE Rat(p[1] * q[2] + q[1] * p[2], p[2] * q[2])

RSub(p, q) == IF IsNaN(p) \/ IsNaN(q) THEN NaN
              ELSE Rat(p[1] * q[2] - q[1] * p[2], p[2] * q[2])

RMul(p, q) == IF IsNaN(p) \/ IsNaN(q) THEN NaN
              ELSE Rat(p[1] * q[1], p[2] * q[2])

\* p / n for an integer count n; a sum of no elements over a count of 0 is NaN
RDivInt(p, n) == IF IsNaN(p) THEN NaN ELSE Rat(p[1], p[2] * n)

\* p <= q; every comparison with NaN is false
RLeq(p, q) == ~IsNaN(p) /\ ~IsNaN(q) /\ p[1] * q[2] <= q[1] * p[2]

RMax(p, q) == IF IsNaN(p) \/ IsNaN(q) THEN NaN ELSE IF RLeq(p, q) THEN q ELSE p

RECURSIVE RSum(_)
RSum(s) == IF s = <<>> THEN Num(0) ELSE RAdd(s[1], RSum(Tail(s)))

\* tensor.mean(): the sum over the count, NaN for an empty tensor
RMean(s) == RDivInt(RSum(s), Len(s))

RECURSIVE ISum(_)
ISum(s) == IF s = <<>> THEN 0 ELSE s[1] + ISum(Tail(s))

\* the sequence s[from .. to]
Slice(s, from, to) == [k \in 1..(IF to >= from THEN to - from + 1 ELSE 0) |-> s[from + k - 1]]

\* torch.randperm(n): the permutations of 1 .. n
Perms(n) == {p \in [1..n -> 1..n] : \A a, b \in 1..n : p[a] = p[b] => a = b}

(***************************************************************************)
(* The collaborators passed in by the caller: the model and the criterion. *)
(***************************************************************************)
\* the states of the model's parameters
Weights == {1, 2}

\* model(x) for one input element v: a linear layer onto two logits
Model(wt, v) == <<RMul(Num(wt), v), RSub(Num(2), v)>>

\* torch.argmax(row, -1) as a class label: NaN counts as the largest value,
\* the first position wins a tie
Argmax(row) ==
    IF \E c \in 1..Len(row) : IsNaN(row[c])
    THEN (CHOOSE c \in 1..Len(row) :
            IsNaN(row[c]) /\ \A e \in 1..(c - 1) : ~IsNaN(row[e])) - 1
    ELSE (CHOOSE c \in 1..Len(row) :
            /\ \A e \in 1..Len(row) : RLeq(row[e], row[c])
            /\ \A e \in 1..(c - 1) : ~RLeq(row[c], row[e])) - 1

\* the loss of one sample: the margin between the largest logit and the logit of
\* the target class
SampleLoss(row, target) == RSub(RMax(row[1], row[2]), row[target + 1])

\* criterion(pred, y): per sample with reduction 'none', their mean with 'mean'
Criterion(reduction, out, y) ==
    LET each == [j \in 1..Len(out) |-> SampleLoss(out[j], y[j])]
    IN  IF reduction = "none" THEN each ELSE <<RMean(each)>>


\* the class labels
Labels == 0..1

(***************************************************************************)
(* mixup_data                                                              *)
(***************************************************************************)
\* a mixup that keeps the drawn coefficient as it is
MixupLamNoMax(alpha, beta) ==
    IF ~RLeq(alpha, Num(0)) THEN beta ELSE <<Num(1)>>

\* lam of mixup_data: one coefficient per batch position for alpha > 0 (shape
\* [bs, 1, 1, 1]), the scalar 1. otherwise (a sequence of length 1)
MixupLam(alpha, beta) ==
    IF ~RLeq(alpha, Num(0))
    THEN [k \in 1..Len(beta) |-> RMax(beta[k], RSub(Num(1), beta[k]))]
    ELSE <<Num(1)>>

\* broadcasting of lam along the batch axis
LamAt(lam, k) == IF Len(lam) = 1 THEN lam[1] ELSE lam[k]

\* lam * a + (1 - lam) * b
Lerp(l, a, b) == RAdd(RMul(l, a), RMul(RSub(Num(1), l), b))

\* mixup_data(x, y, criterion, alpha) with the draws beta of np.random.beta and
\* index of torch.randperm.  mixed_y is lam (rows) broadcast against y (columns).
MixupData(x, y, alpha, beta, index) ==
    LET lam == MixupLam(alpha, beta)
        y_a == y
        y_b == [j \in 1..Len(y) |-> y[index[j]]]
    IN  [ alpha   |-> alpha,
          index   |-> index,
          lam     |-> lam,
          mixed_x |-> [k \in 1..Len(x) |-> Lerp(LamAt(lam, k), x[k], x[index[k]])],
          y_a     |-> y_a,
          y_b     |-> y_b,
          mixed_y |-> [r \in 1..Len(lam) |->
                         [j \in 1..Len(y) |-> Lerp(lam[r], Num(y_a[j]), Num(y_b[j]))]] ]

\* mixup_criterion(pred) of the closure m: lam (rows) broadcast against the
\* criterion's values (columns), then the mean over all elements
MixupCriterion(m, reduction, pred) ==
    LET ca == Criterion(reduction, pred, m.y_a)
        cb == Criterion(reduction, pred, m.y_b)
        R  == Len(m.lam)
        C  == Len(ca)
    IN  RMean([k \in 1..(R * C) |->
                 Lerp(m.lam[((k - 1) \div C) + 1],
                      ca[((k - 1) % C) + 1], cb[((k - 1) % C) + 1])])

\* mixup_acc(pred) of the closure m: (pred == mixed_y).sum().item(), pred
\* broadcast along the rows of mixed_y
MixupAcc(m, pred) ==
    Cardinality({rj \in (1..Len(m.mixed_y)) \X (1..Len(pred)) :
                   Num(pred[rj[2]]) = m.mixed_y[rj[1]][rj[2]]})


(***************************************************************************)
(* The dataset and the dataloader.                                         *)
(***************************************************************************)
Min(a, b) == IF a <= b THEN a ELSE b

\* the image of view v of sample k (v = 0: the dataset has no view axis)
Pixel(k, v) == Num((k + 2 * v) % 3)

\* the datasets of up to MaxSamples labelled samples; with n_aug > 0 every
\* sample is a stack of n_aug views
Datasets(n_aug) ==
    UNION {{[k \in 1..n |->
               [x |-> IF n_aug = 0 THEN Pixel(k, 0)
                      ELSE [v \in 1..n_aug |-> Pixel(k, v)],
                y |-> lab[k]]] : lab \in [1..n -> Labels]} : n \in 0..MaxSamples}

\* len(dataloader) for a DataLoader over n samples
NumBatches(n, batch_size) == (n + batch_size - 1) \div batch_size

\* the (x, y) of iteration it (from 0) of the dataloader
Batch(data, batch_size, it) ==
    LET rows == Slice(data, it * batch_size + 1, Min(Len(data), (it + 1) * batch_size))
    IN  [x |-> [k \in 1..Len(rows) |-> rows[k].x], y |-> [k \in 1..Len(rows) |-> rows[k].y]]

(***************************************************************************)
(* State.                                                                  *)
(***************************************************************************)
VARIABLES
    pc,             \* position of the running call: "idle", a line of train or
                    \* validate, "done" or "raised"
    args,           \* the arguments of the running (or last) call
    i,              \* the loop index of enumerate(dataloader)
    wt,             \* the model's parameters
    mode,           \* "train" after model.train(), "eval" after model.eval()
    mix,            \* what mixup_data returned for the current batch
    output,         \* the logits the loss is taken of
    prediction,
    loss,
    correct,        \* what the batch added to total_correct
    total, total_loss, total_correct,
    ret,            \* the returned (final_loss, final_acc)
    calls,          \* history: the collaborator calls of the running call of train
    hist,           \* history: [loss, n, correct] of each batch of the running call
    views,          \* history: the model's output for every view of the batch (tta)
    mx,             \* the arguments and the result of a call of mixup_data
    lr,             \* the arguments and the result of a call of get_param_lr_maps
    files,          \* the file system: path -> what torch.save wrote there
    latest,         \* history: <<save_dir, epoch>> -> the arguments of the last call
    handlers,       \* log.handlers of the logger 'Metrics'
    closed,         \* the handlers that were closed
    setups          \* the calls of setup_logging_streams: the handlers list of the
                    \* closure, and history: the flags of the call and how often its
                    \* clear_handlers was called

\* the variables of train and validate
epochVars == <<pc, args, i, wt, mode, mix, output, prediction, loss, correct,
               total, total_loss, total_correct, ret, calls, hist, views>>

\* the variables of the other functions
mixupVars == <<mx>>
lrVars == <<lr>>
ckptVars == <<files, latest>>
logVars == <<handlers, closed, setups>>

vars == <<epochVars, mixupVars, lrVars, ckptVars, logVars>>

NoMix == [alpha |-> Num(0), index |-> <<>>, lam |-> <<>>,
          mixed_x |-> <<>>, y_a |-> <<>>, y_b |-> <<>>, mixed_y |-> <<>>]

NoArgs == [fn |-> "none", data |-> <<>>, batch_size |-> 1, mixup |-> FALSE,
           alpha |-> Num(0), scheduler |-> FALSE, reduction |-> "mean",
           tta |-> FALSE, tta_mixing |-> Num(0)]

\* the values of alpha: 0 and the default 0.4
Alphas == {Num(0), Rat(2, 5)}

\* the values of tta_mixing: 0, the default 0.6, and 1
TtaMixings == {Num(0), Rat(3, 5), Num(1)}

\* np.random.beta(alpha, alpha, n): n draws on the grid
BetaDraws(n) == [1..n -> {Rat(b, BetaGrid) : b \in 0..BetaGrid}]

EpochInit ==
    /\ pc = "idle"
    /\ args = NoArgs
    /\ i = 0
    /\ wt \in Weights
    /\ mode \in {"train", "eval"}
    /\ mix = NoMix
    /\ output = <<>>
    /\ prediction = <<>>
    /\ loss = Num(0)
    /\ correct = 0
    /\ total = 0
    /\ total_loss = Num(0)
    /\ total_correct = 0
    /\ ret = <<>>
    /\ calls = <<>>
    /\ hist = <<>>
    /\ views = <<>>

\* no call is running
Returned == pc = "idle"

\* the call has returned or raised and its frame goes away.  The accumulators
\* keep their last values, so that a call that failed to reset them would show.
FrameExit ==
    /\ pc \in {"done", "raised"}
    /\ pc' = "idle"
    /\ args' = NoArgs
    /\ i' = 0
    /\ mix' = NoMix
    /\ output' = <<>>
    /\ prediction' = <<>>
    /\ loss' = Num(0)
    /\ correct' = 0
    /\ ret' = <<>>
    /\ calls' = <<>>
    /\ hist' = <<>>
    /\ views' = <<>>
    /\ UNCHANGED <<wt, mode, total, total_loss, total_correct>>
    /\ UNCHANGED <<mixupVars, lrVars, ckptVars, logVars>>

(***************************************************************************)
(* train                                                                   *)
(***************************************************************************)
\* a train that passes alpha on whatever mixup says
EffectiveAlphaAlways(mixup, alpha) == alpha

\* alpha=alpha if mixup else 0.0
EffectiveAlpha(mixup, alpha) == IF mixup THEN alpha ELSE Num(0)

\* an accumulation that forgets the batch size
AddLossUnweighted(acc, l, n) == RAdd(acc, l)

\* total_loss += loss.item() * len(y)
AddLoss(acc, l, n) == RAdd(acc, RMul(l, Num(n)))

\* total, total_loss, total_correct = 0, 0., 0.
ZeroTotals == [total |-> 0, total_loss |-> Num(0), total_correct |-> 0]

\* (final_loss, final_acc)
Finals == <<RDivInt(total_loss, total), Rat(total_correct, total)>>

CurBatch == Batch(args.data, args.batch_size, i)

TrainCall ==
    /\ Returned
    /\ \E data \in Datasets(0), bs \in 1..MaxBatchSize, mixup, scheduler \in BOOLEAN,
          alpha \in Alphas, reduction \in {"none", "mean"} :
         args' = [fn |-> "train", data |-> data, batch_size |-> bs, mixup |-> mixup,
                  alpha |-> alpha, scheduler |-> scheduler, reduction |-> reduction,
                  tta |-> FALSE, tta_mixing |-> Num(0)]
    /\ mode' = "train"
    /\ total' = ZeroTotals.total
    /\ total_loss' = ZeroTotals.total_loss
    /\ total_correct' = ZeroTotals.total_correct
    /\ i' = 0
    /\ calls' = <<>>
    /\ hist' = <<>>
    /\ ret' = <<>>
    /\ pc' = "mixup"
    /\ mix' = NoMix
    /\ output' = <<>>
    /\ prediction' = <<>>
    /\ loss' = Num(0)
    /\ correct' = 0
    /\ views' = <<>>
    /\ UNCHANGED wt
    /\ UNCHANGED <<mixupVars, lrVars, ckptVars, logVars>>

\* lines 91-96: the next (x, y) of the dataloader and mixup_data
TrainMixup ==
    /\ pc = "mixup"
    /\ i < NumBatches(Len(args.data), args.batch_size)
    /\ LET b == CurBatch
       IN  \E beta \in BetaDraws(Len(b.x)), index \in Perms(Len(b.x)) :
             mix' = MixupData(b.x, b.y, EffectiveAlpha(args.mixup, args.alpha),
                              beta, index)
    /\ pc' = "zero_grad"
    /\ UNCHANGED <<args, i, wt, mode, output, prediction, loss, correct,
                   total, total_loss, total_correct, ret, calls, hist, views>>
    /\ UNCHANGED <<mixupVars, lrVars, ckptVars, logVars>>

\* line 97
TrainZeroGrad ==
    /\ pc = "zero_grad"
    /\ calls' = Append(calls, "zero_grad")
    /\ pc' = "forward"
    /\ UNCHANGED <<args, i, wt, mode, mix, output, prediction, loss, correct,
                   total, total_loss, total_correct, ret, hist, views>>
    /\ UNCHANGED <<mixupVars, lrVars, ckptVars, logVars>>

\* lines 98-103
TrainForward ==
    /\ pc = "forward"
    /\ LET out  == [k \in 1..Len(mix.mixed_x) |-> Model(wt, mix.mixed_x[k])]
           pred == [k \in 1..Len(out) |-> Argmax(out[k])]
           l    == MixupCriterion(mix, args.reduction, out)
           acc  == MixupAcc(mix, pred)
           n    == Len(CurBatch.y)
       IN  /\ output' = out
           /\ prediction' = pred
           /\ loss' = l
           /\ correct' = acc
           /\ total_loss' = AddLoss(total_loss, l, n)
           /\ total_correct' = total_correct + acc
           /\ total' = total + n
           /\ hist' = Append(hist, [loss |-> l, n |-> n, correct |-> acc])
    /\ calls' = Append(calls, "forward")
    /\ pc' = "backward"
    /\ UNCHANGED <<args, i, wt, mode, mix, ret, views>>
    /\ UNCHANGED <<mixupVars, lrVars, ckptVars, logVars>>

\* line 104
TrainBackward ==
    /\ pc = "backward"
    /\ calls' = Append(calls, "backward")
    /\ pc' = "step"
    /\ UNCHANGED <<args, i, wt, mode, mix, output, prediction, loss, correct,
                   total, total_loss, total_correct, ret, hist, views>>
    /\ UNCHANGED <<mixupVars, lrVars, ckptVars, logVars>>

\* a loop that steps the scheduler without asking whether there is one
AfterStepAlways(scheduler) == "sched"

\* after optimizer.step: the scheduler when one was given
AfterStep(scheduler) == IF scheduler THEN "sched" ELSE "log"

\* line 105: the optimizer moves the parameters
TrainOptStep ==
    /\ pc = "step"
    /\ wt' \in Weights
    /\ calls' = Append(calls, "step")
    /\ pc' = AfterStep(args.scheduler)
    /\ UNCHANGED <<args, i, mode, mix, output, prediction, loss, correct,
                   total, total_loss, total_correct, ret, hist, views>>
    /\ UNCHANGED <<mixupVars, lrVars, ckptVars, logVars>>

\* lines 106-107
TrainSchedStep ==
    /\ pc = "sched"
    /\ calls' = Append(calls, "sched")
    /\ pc' = "log"
    /\ UNCHANGED <<args, i, wt, mode, mix, output, prediction, loss, correct,
                   total, total_loss, total_correct, ret, hist, views>>
    /\ UNCHANGED <<mixupVars, lrVars, ckptVars, logVars>>

\* lines 108-124: the progress line (no state of its own), then the next iteration
TrainLog ==
    /\ pc = "log"
    /\ i' = i + 1
    /\ pc' = "mixup"
    /\ UNCHANGED <<args, wt, mode, mix, output, prediction, loss, correct,
                   total, total_loss, total_correct, ret, calls, hist, views>>
    /\ UNCHANGED <<mixupVars, lrVars, ckptVars, logVars>>

\* lines 125-130; total = 0 is Python's ZeroDivisionError
TrainReturn ==
    /\ pc = "mixup"
    /\ i = NumBatches(Len(args.data), args.batch_size)
    /\ IF total = 0
       THEN pc' = "raised" /\ ret' = <<>>
       ELSE pc' = "done" /\ ret' = Finals
    /\ UNCHANGED <<args, i, wt, mode, mix, output, prediction, loss, correct,
                   total, total_loss, total_correct, calls, hist, views>>
    /\ UNCHANGED <<mixupVars, lrVars, ckptVars, logVars>>


(***************************************************************************)
(* validate                                                                *)
(***************************************************************************)
\* a blend with the two weights exchanged
TtaBlendSwapped(rows, m) ==
    LET n == Len(rows)
    IN  [c \in 1..Len(rows[n]) |->
           RAdd(RMul(m, rows[n][c]),
                RMul(RSub(Num(1), m), RMean([v \in 1..(n - 1) |-> rows[v][c]])))]

\* lines 148-150 for one sample, rows = the logits of its n_aug views:
\* (1 - tta_mixing) * output[-1] + tta_mixing * output[:-1].mean()
TtaBlend(rows, m) ==
    LET n == Len(rows)
    IN  [c \in 1..Len(rows[n]) |->
           RAdd(RMul(RSub(Num(1), m), rows[n][c]),
                RMul(m, RMean([v \in 1..(n - 1) |-> rows[v][c]])))]

\* (prediction == y).sum().item()
CountEqual(pred, y) == Cardinality({k \in 1..Len(y) : pred[k] = y[k]})

\* loss.item() needs a criterion that reduces to one element
ValidateCall ==
    /\ Returned
    /\ \E tta \in BOOLEAN, n_aug \in 1..MaxAug, bs \in 1..MaxBatchSize,
          m \in TtaMixings :
         \E data \in Datasets(IF tta THEN n_aug ELSE 0) :
           args' = [fn |-> "validate", data |-> data, batch_size |-> bs,
                    mixup |-> FALSE, alpha |-> Num(0), scheduler |-> FALSE,
                    reduction |-> "mean", tta |-> tta, tta_mixing |-> m]
    /\ mode' = "eval"
    /\ total' = ZeroTotals.total
    /\ total_loss' = ZeroTotals.total_loss
    /\ total_correct' = ZeroTotals.total_correct
    /\ i' = 0
    /\ calls' = <<>>
    /\ hist' = <<>>
    /\ ret' = <<>>
    /\ pc' = "vbatch"
    /\ mix' = NoMix
    /\ output' = <<>>
    /\ prediction' = <<>>
    /\ loss' = Num(0)
    /\ correct' = 0
    /\ views' = <<>>
    /\ UNCHANGED wt
    /\ UNCHANGED <<mixupVars, lrVars, ckptVars, logVars>>

\* lines 141-175: one iteration of the loop
ValidateBatch ==
    /\ pc = "vbatch"
    /\ i < NumBatches(Len(args.data), args.batch_size)
    /\ LET b    == CurBatch
           n    == Len(b.y)
           vw   == IF args.tta
                   THEN [k \in 1..n |-> [v \in 1..Len(b.x[k]) |-> Model(wt, b.x[k][v])]]
                   ELSE <<>>
           out  == IF args.tta
                   THEN [k \in 1..n |-> TtaBlend(vw[k], args.tta_mixing)]
                   ELSE [k \in 1..n |-> Model(wt, b.x[k])]
           pred == [k \in 1..n |-> Argmax(out[k])]
           l    == Criterion(args.reduction, out, b.y)[1]
           acc  == CountEqual(pred, b.y)
       IN  /\ views' = vw
           /\ output' = out
           /\ prediction' = pred
           /\ loss' = l
           /\ correct' = acc
           /\ total_loss' = AddLoss(total_loss, l, n)
           /\ total_correct' = total_correct + acc
           /\ total' = total + n
           /\ hist' = Append(hist, [loss |-> l, n |-> n, correct |-> acc])
    /\ i' = i + 1
    /\ UNCHANGED <<pc, args, wt, mode, mix, ret, calls>>
    /\ UNCHANGED <<mixupVars, lrVars, ckptVars, logVars>>

\* lines 176-181
ValidateReturn ==
    /\ pc = "vbatch"
    /\ i = NumBatches(Len(args.data), args.batch_size)
    /\ IF total = 0
       THEN pc' = "raised" /\ ret' = <<>>
       ELSE pc' = "done" /\ ret' = Finals
    /\ UNCHANGED <<args, i, wt, mode, mix, output, prediction, loss, correct,
                   total, total_loss, total_correct, calls, hist, views>>
    /\ UNCHANGED <<mixupVars, lrVars, ckptVars, logVars>>


(***************************************************************************)
(* Properties of train and validate.                                       *)
(***************************************************************************)
RECURSIVE Repeat(_, _)
Repeat(s, n) == IF n = 0 THEN <<>> ELSE s \o Repeat(s, n - 1)

Count(s, e) == Cardinality({k \in 1..Len(s) : s[k] = e})

IsPrefix(s, t) == Len(s) <= Len(t) /\ \A k \in 1..Len(s) : s[k] = t[k]

\* the collaborator calls of one batch, in order
BatchCalls(scheduler) ==
    <<"zero_grad", "forward", "backward", "step">> \o
    (IF scheduler THEN <<"sched">> ELSE <<>>)

ArgBatches == NumBatches(Len(args.data), args.batch_size)

\* C1: in train every batch calls optimizer.zero_grad, the forward pass,
\* loss.backward, optimizer.step and then scheduler.step (when a scheduler was
\* given), in this order and once each; over an epoch of N batches optimizer.step
\* is called N times and scheduler.step N times with a scheduler and never without,
\* and never more often than optimizer.step.
C1_CallOrder ==
    args.fn = "train" =>
      /\ IsPrefix(calls, Repeat(BatchCalls(args.scheduler), ArgBatches))
      /\ pc = "log" => calls = Repeat(BatchCalls(args.scheduler), i + 1)
      /\ pc = "mixup" => calls = Repeat(BatchCalls(args.scheduler), i)
      /\ Count(calls, "sched") <= Count(calls, "step")
      /\ pc \in {"done", "raised"} =>
           /\ Count(calls, "step") = ArgBatches
           /\ Count(calls, "zero_grad") = ArgBatches
           /\ Count(calls, "forward") = ArgBatches
           /\ Count(calls, "backward") = ArgBatches
           /\ Count(calls, "sched") = IF args.scheduler THEN ArgBatches ELSE 0

\* an epoch of train with a scheduler has returned after two or more batches
C1_Witness ==
    /\ pc = "done"
    /\ args.fn = "train"
    /\ args.scheduler
    /\ ArgBatches >= 2
    /\ Count(calls, "sched") = ArgBatches

\* C2: train and validate return (final_loss, final_acc), the sum over the batches
\* of loss * batch size over the number of samples seen, and the accumulated correct
\* count over the number of samples seen; the running totals start at 0 at every
\* call.
C2_Finals ==
    /\ pc = "done" =>
         LET seen == ISum([k \in 1..Len(hist) |-> hist[k].n])
         IN  /\ seen = Len(args.data)
             /\ Len(hist) = ArgBatches
             /\ ret[1] = RDivInt(RSum([k \in 1..Len(hist) |->
                                         RMul(hist[k].loss, Num(hist[k].n))]), seen)
             /\ ret[2] = Rat(ISum([k \in 1..Len(hist) |-> hist[k].correct]), seen)
    /\ (pc \in {"mixup", "vbatch"} /\ i = 0) =>
         (total = 0 /\ total_loss = Num(0) /\ total_correct = 0)

\* a call has returned after two batches of different sizes and different losses
C2_Witness ==
    /\ pc = "done"
    /\ Len(hist) = 2
    /\ hist[1].n # hist[2].n
    /\ hist[1].loss # hist[2].loss
    /\ ~IsNaN(ret[1])
    /\ ret[1] # Num(0)

\* the weight validate gives view v of n views
TtaWeight(n, v, m) == IF v = n THEN RSub(Num(1), m) ELSE RDivInt(m, n - 1)

\* the output of sample k is the average of its views under the weights TtaWeight,
\* which sum to 1
TtaIsAverage(k) ==
    LET n == Len(views[k])
    IN  /\ RSum([v \in 1..n |-> TtaWeight(n, v, args.tta_mixing)]) = Num(1)
        /\ \A c \in 1..Len(output[k]) :
             output[k][c] = RSum([v \in 1..n |->
                                    RMul(TtaWeight(n, v, args.tta_mixing), views[k][v][c])])

TtaBatchDone == args.fn = "validate" /\ args.tta /\ i > 0

\* C4 as claimed: with tta the output of every sample is (1 - tta_mixing) times the
\* last view's output plus tta_mixing times the mean of the other views' outputs,
\* an average of the views with weights that sum to 1, for every n_aug >= 1.
C4_AverageEveryNAug ==
    TtaBatchDone => \A k \in 1..Len(output) : TtaIsAverage(k)

\* C4 as amended: the same for every n_aug >= 2; with n_aug = 1 the mean of the
\* other views is the mean of an empty tensor and the output is NaN.
C4_AverageTwoOrMore ==
    TtaBatchDone =>
      \A k \in 1..Len(output) :
        /\ Len(views[k]) >= 2 => TtaIsAverage(k)
        /\ Len(views[k]) = 1 => \A c \in 1..Len(output[k]) : IsNaN(output[k][c])

\* a batch of three views with different outputs was blended with tta_mixing 0.6
C4_Witness ==
    /\ TtaBatchDone
    /\ args.tta_mixing = Rat(3, 5)
    /\ \E k \in 1..Len(output) :
         /\ Len(views[k]) = 3
         /\ views[k][1] # views[k][2]
         /\ views[k][2] # views[k][3]
         /\ output[k] # views[k][3]

\* C9: with mixup=False, whatever alpha is, mixup_data is called with alpha = 0,
\* lam is 1, the model is fed the batch x unchanged, the loss is the mean of
\* criterion(output, y) and the batch's correct count is the number of positions
\* where the argmax prediction equals y.
C9_PlainTraining ==
    (args.fn = "train" /\ ~args.mixup) =>
      /\ pc \in {"zero_grad", "forward", "backward", "step"} =>
           /\ mix.alpha = Num(0)
           /\ mix.lam = <<Num(1)>>
           /\ mix.mixed_x = CurBatch.x
      /\ pc \in {"backward", "step"} =>
           /\ output = [k \in 1..Len(CurBatch.x) |-> Model(wt, CurBatch.x[k])]
           /\ prediction = [k \in 1..Len(output) |-> Argmax(output[k])]
           /\ loss = RMean(Criterion("none", output, CurBatch.y))
           /\ correct = CountEqual(prediction, CurBatch.y)

\* plain training with alpha = 0.4 took a batch of two with different labels,
\* permuted, and got one of the two right
C9_Witness ==
    /\ args.fn = "train"
    /\ ~args.mixup
    /\ args.alpha = Rat(2, 5)
    /\ pc = "backward"
    /\ Len(mix.index) = 2
    /\ mix.index = <<2, 1>>
    /\ CurBatch.y[1] # CurBatch.y[2]
    /\ correct = 1

(***************************************************************************)
(* mixup_data called on its own.                                           *)
(***************************************************************************)
\* the values of alpha of a direct call: 0, 0.4 and the default 1.0
MixAlphas == {Num(0), Rat(2, 5), Num(1)}

NoCall == [called |-> FALSE]

\* no call of mixup_data is modelled
MixupIdle == mx = NoCall

\* the arguments of the call
MixupInit ==
    \E n \in 1..MaxBatchSize :
      \E x \in [1..n -> {Num(0), Num(1), Num(2)}], y \in [1..n -> Labels],
         alpha \in MixAlphas :
        mx = [called |-> FALSE, x |-> x, y |-> y, alpha |-> alpha]

MixupDataCall ==
    /\ "alpha" \in DOMAIN mx
    /\ \E beta \in BetaDraws(Len(mx.x)), index \in Perms(Len(mx.x)) :
         mx' = [called |-> TRUE, x |-> mx.x, y |-> mx.y, drawn |-> beta,
                out |-> MixupData(mx.x, mx.y, mx.alpha, beta, index)]
    /\ UNCHANGED <<epochVars, lrVars, ckptVars, logVars>>

\* C3: for alpha > 0 mixup_data interpolates pairs of examples of the batch:
\* mixed_x[i] = lam_i * x[i] + (1 - lam_i) * x[index[i]] with index a permutation
\* of the batch positions, y_a = y, y_b[i] = y[index[i]], and lam_i the larger of
\* the drawn b_i and 1 - b_i, so that 1/2 <= lam_i <= 1 and the original example
\* never has the smaller weight.
C3_Mixup ==
    (mx.called /\ ~RLeq(mx.out.alpha, Num(0))) =>
      LET n == Len(mx.x)
          o == mx.out
      IN  /\ Len(o.lam) = n /\ Len(o.mixed_x) = n /\ Len(o.y_b) = n
          /\ {o.index[k] : k \in 1..n} = 1..n
          /\ o.y_a = mx.y
          /\ \A k \in 1..n :
               /\ o.y_b[k] = mx.y[o.index[k]]
               /\ o.lam[k] \in {mx.drawn[k], RSub(Num(1), mx.drawn[k])}
               /\ RLeq(mx.drawn[k], o.lam[k])
               /\ RLeq(RSub(Num(1), mx.drawn[k]), o.lam[k])
               /\ RLeq(Rat(1, 2), o.lam[k]) /\ RLeq(o.lam[k], Num(1))
               /\ RLeq(RSub(Num(1), o.lam[k]), o.lam[k])
               /\ RSub(o.mixed_x[k], mx.x[o.index[k]]) =
                    RMul(o.lam[k], RSub(mx.x[k], mx.x[o.index[k]]))

\* a batch of two different examples was exchanged; the first drew a coefficient
\* below 1/2 and the second was mixed half and half
C3_Witness ==
    /\ mx.called
    /\ mx.out.alpha = Num(1)
    /\ Len(mx.x) = 2
    /\ mx.out.index = <<2, 1>>
    /\ mx.x[1] # mx.x[2]
    /\ mx.y[1] # mx.y[2]
    /\ mx.drawn[1] = Num(0)
    /\ mx.out.lam[1] = Num(1)
    /\ mx.drawn[2] = Rat(1, 2)
    /\ mx.out.mixed_x[2] # mx.x[2]

(***************************************************************************)
(* get_param_lr_maps                                                       *)
(***************************************************************************)
\* the dotted names a parameter can have, as their components
ParamNames == { <<"conv", "weight">>, <<"bn", "bias">>, <<"out_fc2", "weight">>,
                <<"out_fc", "weight">>, <<"out_fc", "bias">> }

\* Python values: a parameter (known by its name), a (name, parameter) tuple, a
\* list or generator of values
Tensor(name) == [kind |-> "tensor", name |-> name]
Tuple(name, param) == [kind |-> "tuple", name |-> name, param |-> param]
List(items) == [kind |-> "list", items |-> items]

\* model.named_parameters(): the (name, parameter) tuples
NamedParameters(names) ==
    [k \in 1..Len(names) |-> Tuple(names[k], Tensor(names[k]))]

\* the models: up to MaxParams parameters of different names, in any order
Models ==
    UNION {{names \in [1..n -> ParamNames] :
              \A a, b \in 1..n : names[a] = names[b] => a = b} : n \in 0..MaxParams}

\* param.split('.')[0] != 'out_fc'
IsBody(np) == np.name[1] # "out_fc"

\* lines 187-189: the (name, parameter) pairs of the body
BodyParameters(names) ==
    LET Keep(np) == IsBody(np) IN SelectSeq(NamedParameters(names), Keep)

\* model.out_fc.parameters(): the parameters of the submodule out_fc
OutFcParameters(names) ==
    LET Keep(np) == np.name[1] = "out_fc"
        sel == SelectSeq(NamedParameters(names), Keep)
    IN  [k \in 1..Len(sel) |-> sel[k].param]

RECURSIVE RPow(_, _)
RPow(r, n) == IF n = 0 THEN Num(1) ELSE RMul(r, RPow(r, n - 1))

\* the common ratios a progression of the model can have
Ratios == {Rat(a, b) : a, b \in 1..4}

\* evenly spaced values instead of evenly spaced logarithms
LinSpace(start, stop, num) ==
    IF num = 0 THEN <<>>
    ELSE IF num = 1 THEN <<start>>
    ELSE [k \in 1..num |->
            RAdd(start, RMul(Rat(k - 1, num - 1), RSub(stop, start)))]

\* np.geomspace(start, stop, num): num values from start to stop with a constant
\* ratio, the single value start for num = 1, nothing for num = 0
GeomSpace(start, stop, num) ==
    IF num = 0 THEN <<>>
    ELSE IF num = 1 THEN <<start>>
    ELSE LET r == CHOOSE q \in Ratios : RMul(start, RPow(q, num - 1)) = stop
         IN  [k \in 1..num |-> IF k = num THEN stop ELSE RMul(start, RPow(r, k - 1))]

BaseLrs == {Rat(1, 100), Num(1)}

Factors == {Rat(1, 4), Rat(1, 2), Num(1), Num(2)}

\* the (lower, upper) pairs whose progression of num values has a ratio in Ratios
FactorPairs(num) ==
    {f \in Factors \X Factors :
       num <= 1 \/ \E q \in Ratios : RMul(f[1], RPow(q, num - 1)) = f[2]}

\* lines 190-198: one group for the whole body, one for the head
FloatMaps(names, base_lr, factor) ==
    << [params |-> List(BodyParameters(names)), lr |-> RMul(base_lr, factor)],
       [params |-> List(OutFcParameters(names)), lr |-> base_lr] >>

\* lines 199-215: one group for each body parameter, one for the head
PairMaps(names, base_lr, factor) ==
    LET body == BodyParameters(names)
        lrs  == GeomSpace(RMul(base_lr, factor[1]), RMul(base_lr, factor[2]), Len(body))
    IN  [k \in 1..Len(body) |-> [params |-> body[k].param, lr |-> lrs[k]]]
        \o << [params |-> List(OutFcParameters(names)), lr |-> base_lr] >>

\* no call of get_param_lr_maps is modelled
LrIdle == lr = NoCall

\* the arguments of the call: finetune_body_factor is a float (a sequence of one
\* value here) or a (lower, upper) pair
LrInit ==
    \E names \in Models, base_lr \in BaseLrs :
      \E factor \in {<<f>> : f \in Factors} \cup FactorPairs(Len(BodyParameters(names))) :
        lr = [called |-> FALSE, names |-> names, base_lr |-> base_lr,
              pair |-> (Len(factor) = 2), factor |-> factor]

\* type(finetune_body_factor) is float
GetParamLrMapsFloat ==
    /\ "pair" \in DOMAIN lr
    /\ ~lr.called
    /\ ~lr.pair
    /\ lr' = [lr EXCEPT !.called = TRUE] @@
             [maps |-> FloatMaps(lr.names, lr.base_lr, lr.factor[1])]
    /\ UNCHANGED <<epochVars, mixupVars, ckptVars, logVars>>

GetParamLrMapsPair ==
    /\ "pair" \in DOMAIN lr
    /\ ~lr.called
    /\ lr.pair
    /\ lr' = [lr EXCEPT !.called = TRUE] @@
             [maps |-> PairMaps(lr.names, lr.base_lr, lr.factor)]
    /\ UNCHANGED <<epochVars, mixupVars, ckptVars, logVars>>


\* what an optimizer takes for the parameters of a group: the elements of a list,
\* or the one tensor
Elements(group) ==
    IF group.params.kind = "list"
    THEN {group.params.items[k] : k \in 1..Len(group.params.items)}
    ELSE {group.params}

\* the names of the body and of the head of the model of the last call, in order
BodyNames == SelectSeq(lr.names, LAMBDA nm : nm[1] # "out_fc")
HeadNames == SelectSeq(lr.names, LAMBDA nm : nm[1] = "out_fc")

\* n + 1 groups, one for each body parameter in order, on a geometric progression
\* from base_lr * lower to base_lr * upper, then the head with base_lr
LrProgression ==
    LET n == Len(BodyNames)
        m == lr.maps
    IN  /\ Len(m) = n + 1
        /\ \A k \in 1..n : m[k].params = Tensor(BodyNames[k])
        /\ m[1].lr = RMul(lr.base_lr, lr.factor[1])
        /\ m[n].lr = RMul(lr.base_lr, lr.factor[2])
        /\ \A k \in 2..(n - 1) : RMul(m[k].lr, m[k].lr) = RMul(m[k - 1].lr, m[k + 1].lr)
        /\ m[n + 1].params = List([k \in 1..Len(HeadNames) |-> Tensor(HeadNames[k])])
        /\ m[n + 1].lr = lr.base_lr

\* C5 as claimed: with a (lower, upper) pair and n >= 1 body parameters
\* get_param_lr_maps returns n + 1 groups, one for each body parameter in
\* named_parameters order with learning rates on a geometric progression from
\* base_lr * lower to base_lr * upper, then one group of the out_fc parameters with
\* base_lr.
C5_ProgressionFromOne ==
    (lr.called /\ lr.pair /\ Len(BodyNames) >= 1) => LrProgression

\* C5 as amended: the same for n >= 2 body parameters; with n = 1 there are two
\* groups, the body parameter with base_lr * lower and the head with base_lr.
C5_ProgressionFromTwo ==
    (lr.called /\ lr.pair) =>
      /\ Len(BodyNames) >= 2 => LrProgression
      /\ Len(BodyNames) = 1 =>
           /\ Len(lr.maps) = 2
           /\ lr.maps[1].params = Tensor(BodyNames[1])
           /\ lr.maps[1].lr = RMul(lr.base_lr, lr.factor[1])
           /\ lr.maps[2].params = List([k \in 1..Len(HeadNames) |-> Tensor(HeadNames[k])])
           /\ lr.maps[2].lr = lr.base_lr

\* three body parameters got three different learning rates
C5_Witness ==
    /\ lr.called
    /\ lr.pair
    /\ Len(BodyNames) = 3
    /\ lr.factor = <<Rat(1, 4), Num(1)>>
    /\ lr.base_lr = Rat(1, 100)
    /\ lr.maps[2].lr = Rat(1, 200)

\* C6: for a float and for a (lower, upper) pair, every element under 'params' of
\* every group is a parameter of the model, every body parameter is in exactly one
\* group, and no out_fc parameter is in a body group.
C6_GroupsHoldParameters ==
    lr.called =>
      LET m == lr.maps
      IN  /\ \A g \in 1..Len(m) : \A e \in Elements(m[g]) :
                /\ e.kind = "tensor"
                /\ \E k \in 1..Len(lr.names) : e.name = lr.names[k]
          /\ \A k \in 1..Len(BodyNames) :
                Cardinality({g \in 1..Len(m) : Tensor(BodyNames[k]) \in Elements(m[g])}) = 1
          /\ \A g \in 1..(Len(m) - 1) : \A k \in 1..Len(HeadNames) :
                Tensor(HeadNames[k]) \notin Elements(m[g])

(***************************************************************************)
(* checkpoint_state                                                        *)
(***************************************************************************)
\* the decimal digits of n >= 0
RECURSIVE Digits(_)
Digits(n) ==
    LET d == <<"0", "1", "2", "3", "4", "5", "6", "7", "8", "9">>[(n % 10) + 1]
    IN  IF n < 10 THEN <<d>> ELSE Append(Digits(n \div 10), d)

\* a format that keeps the last digit only
LastDigit(n) == <<(<<"0", "1", "2", "3", "4", "5", "6", "7", "8", "9">>)[(n % 10) + 1]>>

\* '%d' % epoch
FormatD(epoch) == Digits(epoch)

\* os.path.join(model.save_dir, 'epoch_%d.pth' % epoch)
CheckpointPath(save_dir, epoch) ==
    <<save_dir, "/", "epoch_">> \o FormatD(epoch) \o <<".pth">>

SaveDirs == {"run_a", "run_b"}

Epochs == {10 * k : k \in 0..MaxEpochIdx}

None == [none |-> TRUE]
StateDict(v) == [none |-> FALSE, state |-> v]

\* lines 235-244: the saved dictionary
CheckpointRecord(a) ==
    [ model_state_dict     |-> StateDict(a.model),
      optimizer_state_dict |-> StateDict(a.optimizer),
      scheduler_state_dict |-> IF a.scheduler = None THEN None ELSE StateDict(a.scheduler.state),
      train_loss           |-> a.train_loss,
      train_acc            |-> a.train_acc,
      val_loss             |-> a.val_loss,
      val_acc              |-> a.val_acc,
      epoch                |-> a.epoch ]

CkptInit ==
    /\ files = <<>>
    /\ latest = <<>>

CheckpointState ==
    \E save_dir \in SaveDirs, epoch \in Epochs, w \in Weights,
       scheduler \in {None, [none |-> FALSE, state |-> 7]} :
      LET a == [save_dir |-> save_dir, model |-> w, optimizer |-> 10 + w,
                scheduler |-> scheduler, train_loss |-> Rat(1, 2),
                train_acc |-> Rat(3, 4), val_loss |-> Rat(2, 3),
                val_acc |-> Rat(1, 4), epoch |-> epoch]
      IN  /\ files' = (CheckpointPath(save_dir, epoch) :> CheckpointRecord(a)) @@ files
          /\ latest' = (<<save_dir, epoch>> :> a) @@ latest
          /\ UNCHANGED <<epochVars, mixupVars, lrVars, logVars>>

\* C7: checkpoint_state writes one record of the eight fields to 'epoch_<epoch>.pth'
\* under model.save_dir, with scheduler_state_dict None exactly when scheduler is
\* None; after any sequence of calls the file of epoch e holds the record of the
\* last call made with epoch e, and the files of the other epochs are as they were.
C7_Checkpoints ==
    /\ Cardinality(DOMAIN files) = Cardinality(DOMAIN latest)
    /\ \A key \in DOMAIN latest :
         LET a == latest[key]
             p == <<key[1], "/", "epoch_">> \o Digits(key[2]) \o <<".pth">>
         IN  /\ p \in DOMAIN files
             /\ DOMAIN files[p] = {"model_state_dict", "optimizer_state_dict",
                                   "scheduler_state_dict", "train_loss", "train_acc",
                                   "val_loss", "val_acc", "epoch"}
             /\ files[p].model_state_dict = StateDict(a.model)
             /\ files[p].optimizer_state_dict = StateDict(a.optimizer)
             /\ (files[p].scheduler_state_dict = None) <=> (a.scheduler = None)
             /\ a.scheduler # None => files[p].scheduler_state_dict = a.scheduler
             /\ files[p].train_loss = a.train_loss
             /\ files[p].train_acc = a.train_acc
             /\ files[p].val_loss = a.val_loss
             /\ files[p].val_acc = a.val_acc
             /\ files[p].epoch = key[2]

\* epochs 0 and 10 were both saved in one directory, with different records, one
\* of them without a scheduler
C7_Witness ==
    /\ <<"run_a", 0>> \in DOMAIN latest
    /\ <<"run_a", 10>> \in DOMAIN latest
    /\ <<"run_b", 0>> \in DOMAIN latest
    /\ latest[<<"run_a", 0>>].model # latest[<<"run_a", 10>>].model
    /\ latest[<<"run_a", 0>>].scheduler = None
    /\ latest[<<"run_a", 10>>].scheduler # None

(***************************************************************************)
(* setup_logging_streams                                                   *)
(***************************************************************************)
\* Logger.addHandler: appends unless it is there already
AddHandler(hs, h) == IF \E k \in 1..Len(hs) : hs[k] = h THEN hs ELSE Append(hs, h)

\* a removal that empties the logger
RemoveEveryHandler(hs, h) == <<>>

\* Logger.removeHandler: removes the handler if it is there
RemoveHandler(hs, h) == SelectSeq(hs, LAMBDA e : e # h)

\* the handlers made so far
Made == UNION {{s.handlers[k] : k \in 1..Len(s.handlers)} :
               s \in {setups[c] : c \in 1..Len(setups)}}

LogInit ==
    /\ handlers = <<>>
    /\ closed = {}
    /\ setups = <<>>

\* lines 49-78
SetupLoggingStreams ==
    /\ Len(setups) < MaxSetups
    /\ \E log_to_file, log_to_stdout \in BOOLEAN :
         LET fh == [id |-> Cardinality(Made) + 1, kind |-> "file"]
             ch == [id |-> Cardinality(Made) + (IF log_to_file THEN 2 ELSE 1),
                    kind |-> "stream"]
             h1 == IF log_to_file THEN AddHandler(handlers, fh) ELSE handlers
             l1 == IF log_to_file THEN <<fh>> ELSE <<>>
             h2 == IF log_to_stdout THEN AddHandler(h1, ch) ELSE h1
             l2 == IF log_to_stdout THEN Append(l1, ch) ELSE l1
         IN  /\ handlers' = h2
             /\ setups' = Append(setups, [handlers |-> l2, log_to_file |-> log_to_file,
                                          log_to_stdout |-> log_to_stdout, cleared |-> 0])
    /\ UNCHANGED closed
    /\ UNCHANGED <<epochVars, mixupVars, lrVars, ckptVars>>

RECURSIVE RemoveAll(_, _)
\* the loop of lines 73-75 over the closure's list
RemoveAll(hs, list) ==
    IF list = <<>> THEN hs ELSE RemoveAll(RemoveHandler(hs, list[1]), Tail(list))

\* lines 72-76: the clear_handlers returned by call c; a third call adds nothing
\* to what the second shows
ClearHandlers ==
    \E c \in 1..Len(setups) :
      /\ setups[c].cleared < 2
      /\ closed' = closed \cup {setups[c].handlers[k] : k \in 1..Len(setups[c].handlers)}
      /\ handlers' = RemoveAll(handlers, setups[c].handlers)
      /\ setups' = [setups EXCEPT ![c].cleared = @ + 1]
      /\ UNCHANGED <<epochVars, mixupVars, lrVars, ckptVars>>

\* the handlers of the calls cs
HandlersOf(cs) ==
    UNION {{setups[c].handlers[k] : k \in 1..Len(setups[c].handlers)} : c \in cs}

\* the calls whose clear_handlers was not called, and those whose was
Uncleared == {c \in 1..Len(setups) : setups[c].cleared = 0}
Cleared == {c \in 1..Len(setups) : setups[c].cleared > 0}

\* C8: setup_logging_streams adds one handler for each enabled flag, and its
\* clear_handlers closes and removes the handlers of that call and no others:
\* the logger holds the handlers of the calls whose clear_handlers was not called
\* yet, however the calls interleave and however often a clear_handlers is called.
C8_Handlers ==
    /\ \A c \in 1..Len(setups) :
         /\ Len(setups[c].handlers) = (IF setups[c].log_to_file THEN 1 ELSE 0)
                                      + (IF setups[c].log_to_stdout THEN 1 ELSE 0)
         /\ setups[c].log_to_file => setups[c].handlers[1].kind = "file"
         /\ setups[c].log_to_stdout =>
              setups[c].handlers[Len(setups[c].handlers)].kind = "stream"
    /\ {handlers[k] : k \in 1..Len(handlers)} = HandlersOf(Uncleared)
    /\ Len(handlers) = Cardinality(HandlersOf(Uncleared))
    /\ closed = HandlersOf(Cleared)

\* of three calls the second was cleared twice and the others keep their handlers
C8_Witness ==
    /\ Len(setups) = 3
    /\ setups[1].cleared = 0 /\ Len(setups[1].handlers) = 2
    /\ setups[2].cleared = 2 /\ Len(setups[2].handlers) = 2
    /\ setups[3].cleared = 0 /\ Len(setups[3].handlers) = 1
    /\ Len(handlers) = 3

(***************************************************************************)
(* Specifications.                                                         *)
(***************************************************************************)
\* train and validate have not been called
EpochIdle == EpochInit /\ wt = 1 /\ mode = "train"

\* train and validate
Init == EpochInit /\ MixupIdle /\ LrIdle /\ CkptInit /\ LogInit

Next ==
    \/ TrainCall
    \/ TrainMixup
    \/ TrainZeroGrad
    \/ TrainForward
    \/ TrainBackward
    \/ TrainOptStep
    \/ TrainSchedStep
    \/ TrainLog
    \/ TrainReturn
    \/ ValidateCall
    \/ ValidateBatch
    \/ ValidateReturn
    \/ FrameExit

Spec == Init /\ [][Next]_vars

\* mixup_data
InitMixup == EpochIdle /\ MixupInit /\ LrIdle /\ CkptInit /\ LogInit

NextMixup == MixupDataCall

SpecMixup == InitMixup /\ [][NextMixup]_vars

\* get_param_lr_maps
InitLr == EpochIdle /\ MixupIdle /\ LrInit /\ CkptInit /\ LogInit

NextLr ==
    \/ GetParamLrMapsFloat
    \/ GetParamLrMapsPair

SpecLr == InitLr /\ [][NextLr]_vars

\* checkpoint_state
InitCkpt == EpochIdle /\ MixupIdle /\ LrIdle /\ CkptInit /\ LogInit

NextCkpt == CheckpointState

SpecCkpt == InitCkpt /\ [][NextCkpt]_vars

\* setup_logging_streams and the clear_handlers it returns
InitLog == EpochIdle /\ MixupIdle /\ LrIdle /\ CkptInit /\ LogInit

NextLog ==
    \/ SetupLoggingStreams
    \/ ClearHandlers

SpecLog == InitLog /\ [][NextLog]_vars
=============================================================================
